---------------------------- MODULE Spec2Model ----------------------------
(***************************************************************************)
(* A model of hilti's node::Range / node::RangeIterator                    *)
(* (hilti/toolchain/include/ast/node-range.h), of the Node interface the   *)
(* range works on, and of the consumers the specification describes        *)
(* around them (walker, pass pipeline, documentation generator).           *)
(*                                                                         *)
(* Iterators over std::vector<NodePtr> are modelled as integer positions   *)
(* into the vector (0 is nodes.begin(), Len(nodes) is nodes.end()).        *)
(* Nodes are identities 1..NumNodes; a shared_ptr is the identity it       *)
(* points to, or NULL.                                                     *)
(***************************************************************************)
EXTENDS Integers, Sequences, FiniteSets, TLC

VARIABLES
    nodes,      \* the std::vector<NodePtr> a Range views (a child sequence)
    ndebug,     \* whether the build defines NDEBUG (assert compiled out)
    a,          \* the Range under test: [_begin, _end]
    pc,         \* the client: "new" | "ready" | "iter" | "returned" | "aborted"
    it,         \* the RangeIterator of a client loop over the range
    yielded,    \* what the client loop got from *it so far
    last,       \* the last operation applied and what it returned
    iterX,      \* a RangeIterator that a client moves with the arithmetic operators
    iterY,      \* a second RangeIterator, obtained from iterX
    arith,      \* the last arithmetic operation on iterX: operands and result
    heap,       \* the nodes that exist: identity -> kind, children, meta, properties, pruneWalk
    heap0,      \* the heap as it was built, before any operation
    copied,     \* the vector Range::copy() returned
    order,      \* the walker's configuration: "pre" or "post" order
    stack,      \* the walker's path from the root: [node, next child to descend into]
    visited,    \* the nodes the walker has visited, in order
    wpc,        \* the walker: "idle" | "walking" | "done"
    passFns,    \* what each pass of the pipeline does to a tree
    tree,       \* the tree the pipeline works on
    round,      \* the iteration of the fixed-point loop, from 1
    passIdx,    \* the next pass of the current iteration
    modified,   \* whether a pass of the current iteration reported a change
    outcome,    \* "idle" | "running" | "stable" | "failed"
    report,     \* what a finished run reported: "changed" | "unchanged" | "diagnostic"
    rerun,      \* whether the pipeline was run again on the stabilized tree
    docMeta,    \* the documentation generator's input: the list meta
    docIdx,     \* the position of the grouping loop in meta, from 1
    operators,  \* the dictionary namespace -> list of Operator objects
    methods,    \* the dictionary namespace -> list of Method objects
    args,       \* the command line: [dir, types]
    out,        \* what the output loop printed, in order: [ns, s]
    run,        \* 1 for the first run of the generator, 2 for the second
    firstOut,   \* what the first run printed
    reordered,  \* whether the second run got the entries in another order
    docPc       \* "idle" | "grouping" | "written"

rangeVars == <<nodes, ndebug, a, pc, it, yielded, last>>
iterVars == <<iterX, iterY, arith>>
heapVars == <<heap, heap0, copied>>
walkVars == <<order, stack, visited, wpc>>
pipeVars == <<passFns, tree, round, passIdx, modified, outcome, report, rerun>>
docVars == <<docMeta, docIdx, operators, methods>>
outVars == <<args, out, run, firstOut, reordered, docPc>>

\* What a specification leaves alone.
notRange == <<iterVars, heapVars, walkVars, pipeVars, docVars, outVars>>
notIter == <<rangeVars, heapVars, walkVars, pipeVars, docVars, outVars>>
notCopy == <<iterVars, walkVars, pipeVars, docVars, outVars, it, yielded>>
notWalk == <<rangeVars, iterVars, heapVars, pipeVars, docVars, outVars>>
notPipe == <<rangeVars, iterVars, heapVars, walkVars, docVars, outVars>>
notDoc == <<rangeVars, iterVars, heapVars, walkVars, pipeVars, outVars>>
notOut == <<rangeVars, iterVars, heapVars, walkVars, pipeVars>>

-----------------------------------------------------------------------------
(* Bounds of the model *)

MaxLen == 3
NumNodes == 3
Width == 4
MaxOffset == 3
TreeSize == 4
NumTrees == 2
MaxEntries == 2

-----------------------------------------------------------------------------
(* Nodes, capabilities, integer types *)

NULL == 0
NodeIds == 1 .. NumNodes
Handles == NodeIds \cup {NULL}

\* The dynamic type of a node: every third identity is a statement, the others
\* are expressions. Range<T> is instantiated with T = Expression.
kindOf(n) == IF n % 3 = 0 THEN "Statement" ELSE "Expression"
T == "Expression"

\* std::dynamic_pointer_cast<T>(p): p when p's dynamic type is a T, else null.
dynamic_pointer_cast(p) == IF p # NULL /\ kindOf(p) = T THEN p ELSE NULL

Satisfies(n) == dynamic_pointer_cast(n) # NULL

\* size_t and difference_type are Width bits wide.
Modulus == 2 ^ Width
SizeT == 0 .. (Modulus - 1)
to_size_t(x) == x % Modulus
to_difference_type(x) ==
    LET u == x % Modulus
    IN  IF u >= Modulus \div 2 THEN u - Modulus ELSE u

SeqsUpTo(S, n) == UNION { [1 .. k -> S] : k \in 0 .. n }

-----------------------------------------------------------------------------
(* RangeIterator *)

RangeIterator(i) == [_iter |-> i]

InVector(pos) == pos >= 0 /\ pos < Len(nodes)

Outcome(st, val) == [st |-> st, val |-> val]

\* RangeIterator::node(): *_iter
node(iter) == nodes[iter._iter + 1]

\* value() without its assertion.
value_Unchecked(iter) ==
    IF InVector(iter._iter)
    THEN {Outcome("ok", dynamic_pointer_cast(node(iter)))}
    ELSE {Outcome("ok", h) : h \in Handles} \cup {Outcome("crash", NULL)}

\* RangeIterator::value(), the body of operator*: the set of outcomes the
\* build can produce. Reading outside the vector is undefined behaviour.
value(iter) ==
    IF InVector(iter._iter)
    THEN LET t == dynamic_pointer_cast(node(iter))
         IN  IF t = NULL /\ ~ndebug
             THEN {Outcome("assert", NULL)}
             ELSE {Outcome("ok", t)}
    ELSE {Outcome("ok", h) : h \in Handles} \cup {Outcome("crash", NULL)}

IterEq(x, y) == x._iter = y._iter
IterPreIncr(x) == RangeIterator(x._iter + 1)
IterPostIncr(x) == [ret |-> RangeIterator(x._iter), self |-> RangeIterator(x._iter + 1)]
IterPlusAssign(x, i) == RangeIterator(x._iter + i)
IterMinusAssign(x, i) == RangeIterator(x._iter - i)
IterDiff(x, y) == x._iter - y._iter
IterMinus(x, i) == RangeIterator(x._iter - i)

\* operator+ clamped to the start of the vector.
IterPlus_Clamped(x, i) == RangeIterator(IF x._iter + i < 0 THEN 0 ELSE x._iter + i)

IterPlus(x, i) == RangeIterator(x._iter + i)

-----------------------------------------------------------------------------
(* Range *)

Range(b, e) == [_begin |-> RangeIterator(b), _end |-> RangeIterator(e)]
RangeOfVector(v) == Range(0, Len(v))

\* begin() of the underlying vector instead of the span.
begin_OfVector(r) == RangeIterator(0)

begin(r) == RangeIterator(r._begin._iter)
end(r) == RangeIterator(r._end._iter)
size(r) == to_size_t(IterDiff(r._end, r._begin))
\* front() of the underlying vector instead of the span.
front_OfVector(r) == value(RangeIterator(0))

front(r) == value(r._begin)
empty(r) == IterEq(r._begin, r._end)

\* Range::operator[](size_t i), lines 124-127. The index is converted to
\* difference_type both in the assertion and in _begin + i.
Subscript(r, i) ==
    LET d == to_difference_type(i)
    IN  IF ~ndebug /\ ~(d < IterDiff(r._end, r._begin))
        THEN {Outcome("assert", NULL)}
        ELSE value(IterPlus(r._begin, d))

\* The loop of Range::operator==, lines 136-143: *x++ == *y++ compares the
\* two shared_ptr<T> that operator* returns.
RECURSIVE EqualsLoop(_, _, _)
EqualsLoop(x, y, e) ==
    IF IterEq(x, e)
    THEN {Outcome("ok", TRUE)}
    ELSE UNION { IF vx.st # "ok" THEN {Outcome(vx.st, FALSE)}
                 ELSE IF vy.st # "ok" THEN {Outcome(vy.st, FALSE)}
                 ELSE IF ~(vx.val = vy.val) THEN {Outcome("ok", FALSE)}
                 ELSE EqualsLoop(IterPostIncr(x).self, IterPostIncr(y).self, e)
               : vx \in value(x), vy \in value(y) }

\* operator== without the comparison of the sizes.
Equals_NoSizeCheck(self, other, sameObject) ==
    IF sameObject
    THEN {Outcome("ok", TRUE)}
    ELSE EqualsLoop(self._begin, other._begin, self._end)

\* Range::operator==, lines 129-144. sameObject is this == &other.
Equals(self, other, sameObject) ==
    IF sameObject
    THEN {Outcome("ok", TRUE)}
    ELSE IF size(self) # size(other)
         THEN {Outcome("ok", FALSE)}
         ELSE EqualsLoop(self._begin, other._begin, self._end)

-----------------------------------------------------------------------------
(* The operations on a range as steps of a client *)

Op(op, i, j, same, r) ==
    [op |-> op, i |-> i, j |-> j, same |-> same, st |-> r.st, val |-> r.val]

Finish(r) == IF r.st = "ok" THEN "returned" ELSE "aborted"

IdleIter ==
    /\ iterX = RangeIterator(0)
    /\ iterY = RangeIterator(0)
    /\ arith = [op |-> "none", n |-> 0, old |-> RangeIterator(0),
                ret |-> RangeIterator(0), d |-> 0]

IdleHeap ==
    /\ heap = <<>>
    /\ heap0 = <<>>
    /\ copied = <<>>

IdleWalk ==
    /\ order = "pre"
    /\ stack = <<>>
    /\ visited = <<>>
    /\ wpc = "idle"

EmptyDict == [k \in {} |-> <<>>]

NoArgs == [dir |-> FALSE, types |-> <<>>]

IdleDoc ==
    /\ docMeta = <<>>
    /\ docIdx = 0
    /\ operators = EmptyDict
    /\ methods = EmptyDict
    /\ args = NoArgs
    /\ out = <<>>
    /\ run = 0
    /\ firstOut = <<>>
    /\ reordered = FALSE
    /\ docPc = "idle"

IdlePipe ==
    /\ passFns = <<>>
    /\ tree = 0
    /\ round = 0
    /\ passIdx = 0
    /\ modified = FALSE
    /\ outcome = "idle"
    /\ report = "none"
    /\ rerun = FALSE

IdleRange ==
    /\ nodes = <<>>
    /\ ndebug = FALSE
    /\ a = Range(0, 0)
    /\ pc = "new"
    /\ it = RangeIterator(0)
    /\ yielded = <<>>
    /\ last = Op("none", 0, 0, FALSE, Outcome("ok", NULL))

InitRange ==
    /\ IdlePipe
    /\ IdleDoc
    /\ IdleIter
    /\ IdleHeap
    /\ IdleWalk
    /\ nodes \in SeqsUpTo(NodeIds, MaxLen)
    /\ ndebug \in BOOLEAN
    /\ a = Range(0, 0)
    /\ pc = "new"
    /\ it = RangeIterator(0)
    /\ yielded = <<>>
    /\ last = Op("none", 0, 0, FALSE, Outcome("ok", NULL))

\* Range(begin, end), lines 97-98
Construct(i, j) ==
    /\ pc = "new"
    /\ a' = Range(i, j)
    /\ pc' = "ready"
    /\ last' = Op("Range", i, j, FALSE, Outcome("ok", NULL))
    /\ UNCHANGED <<nodes, ndebug, it, yielded>>
    /\ UNCHANGED notRange

\* Range(nodes), line 100
ConstructFromVector ==
    /\ pc = "new"
    /\ a' = RangeOfVector(nodes)
    /\ pc' = "ready"
    /\ last' = Op("RangeOfVector", 0, 0, FALSE, Outcome("ok", NULL))
    /\ UNCHANGED <<nodes, ndebug, it, yielded>>
    /\ UNCHANGED notRange

CallSize ==
    /\ pc = "ready"
    /\ last' = Op("size", 0, 0, FALSE, Outcome("ok", size(a)))
    /\ pc' = "returned"
    /\ UNCHANGED <<nodes, ndebug, a, it, yielded>>
    /\ UNCHANGED notRange

CallEmpty ==
    /\ pc = "ready"
    /\ last' = Op("empty", 0, 0, FALSE, Outcome("ok", empty(a)))
    /\ pc' = "returned"
    /\ UNCHANGED <<nodes, ndebug, a, it, yielded>>
    /\ UNCHANGED notRange

CallFront ==
    /\ pc = "ready"
    /\ \E r \in front(a) :
          /\ last' = Op("front", 0, 0, FALSE, r)
          /\ pc' = Finish(r)
    /\ UNCHANGED <<nodes, ndebug, a, it, yielded>>
    /\ UNCHANGED notRange

CallSubscript(i) ==
    /\ pc = "ready"
    /\ \E r \in Subscript(a, i) :
          /\ last' = Op("subscript", i, 0, FALSE, r)
          /\ pc' = Finish(r)
    /\ UNCHANGED <<nodes, ndebug, a, it, yielded>>
    /\ UNCHANGED notRange

\* a == other, where other is a itself (same) or a range over [i, j)
CallEquals(i, j, same) ==
    /\ pc = "ready"
    /\ same => (Range(i, j) = a)
    /\ \E r \in Equals(a, Range(i, j), same) :
          /\ last' = Op("equals", i, j, same, r)
          /\ pc' = Finish(r)
    /\ UNCHANGED <<nodes, ndebug, a, it, yielded>>
    /\ UNCHANGED notRange

\* for ( auto i = r.begin(); i != r.end(); ++i ) use(*i);
LoopBegin ==
    /\ pc = "ready"
    /\ it' = begin(a)
    /\ pc' = "iter"
    /\ last' = Op("begin", 0, 0, FALSE, Outcome("ok", NULL))
    /\ UNCHANGED <<nodes, ndebug, a, yielded>>
    /\ UNCHANGED notRange

LoopStep ==
    /\ pc = "iter"
    /\ ~IterEq(it, end(a))
    /\ \E r \in value(it) :
          /\ last' = Op("deref", it._iter, 0, FALSE, r)
          /\ IF r.st = "ok"
             THEN /\ yielded' = Append(yielded, r.val)
                  /\ it' = IterPreIncr(it)
                  /\ pc' = "iter"
             ELSE /\ pc' = "aborted"
                  /\ UNCHANGED <<it, yielded>>
    /\ UNCHANGED <<nodes, ndebug, a>>
    /\ UNCHANGED notRange

LoopEnd ==
    /\ pc = "iter"
    /\ IterEq(it, end(a))
    /\ pc' = "returned"
    /\ last' = Op("end", 0, 0, FALSE, Outcome("ok", NULL))
    /\ UNCHANGED <<nodes, ndebug, a, it, yielded>>
    /\ UNCHANGED notRange

Spans == { <<i, j>> \in (0 .. Len(nodes)) \X (0 .. Len(nodes)) : i <= j }

NextRange ==
    \/ \E s \in Spans : Construct(s[1], s[2])
    \/ ConstructFromVector
    \/ CallSize
    \/ CallEmpty
    \/ CallFront
    \/ \E i \in SizeT : CallSubscript(i)
    \/ \E s \in Spans, same \in BOOLEAN : CallEquals(s[1], s[2], same)
    \/ LoopBegin
    \/ LoopStep
    \/ LoopEnd

vars == <<rangeVars, iterVars, heapVars, walkVars, pipeVars, docVars, outVars>>

Spec == InitRange /\ [][NextRange]_vars

-----------------------------------------------------------------------------
(* Properties of Range and RangeIterator *)

SpanBegin == a._begin._iter
SpanEnd == a._end._iter

\* Every element of the span [b, e) of the vector satisfies capability T.
WellTyped(b, e) == \A k \in (b + 1) .. e : Satisfies(nodes[k])

\* C1: a client loop from begin() to end() with operator++ yields the
\* elements of the span in child-sequence order, one per slot: after n
\* steps the iterator stands n slots after begin() and has yielded the nodes
\* of the first n slots (as the T handles operator* recovers from them: the
\* node itself, or the null handle of a build without assertions for a node
\* that is no T); the loop stops early only on the dereference assertion,
\* and a completed loop has yielded exactly S[i], ..., S[j-1].
C1_RangeOrderPreservation ==
    (pc = "iter" \/ last.op \in {"deref", "end"}) =>
        /\ it._iter = SpanBegin + Len(yielded)
        /\ it._iter <= SpanEnd
        /\ \A k \in 1 .. Len(yielded) :
              /\ Satisfies(nodes[SpanBegin + k]) => yielded[k] = nodes[SpanBegin + k]
              /\ ~Satisfies(nodes[SpanBegin + k]) => (ndebug /\ yielded[k] = NULL)
        /\ (pc = "aborted") => (~ndebug /\ ~Satisfies(nodes[it._iter + 1]))
        /\ (last.op = "end") => Len(yielded) = SpanEnd - SpanBegin
        /\ (last.op = "end" /\ WellTyped(SpanBegin, SpanEnd)) =>
              yielded = SubSeq(nodes, SpanBegin + 1, SpanEnd)

\* A completed loop over a proper sub-span that holds the same node twice.
C1_Witness ==
    /\ last.op = "end"
    /\ SpanBegin > 0
    /\ Len(yielded) >= 2
    /\ yielded[1] # NULL
    /\ yielded[1] = yielded[2]

\* The position a dereferencing operation read.
DerefPos == IF last.op = "deref" THEN last.i ELSE SpanBegin
IsDeref == last.op \in {"deref", "front"} /\ InVector(DerefPos)

\* C2 as stated: construction never checks the elements; dereferencing a node
\* that does not satisfy T always fails the assertion and never returns a
\* null handle; dereferencing a node that satisfies T returns that node.
C2_DerefAlwaysAsserts ==
    /\ last.op \in {"Range", "RangeOfVector"} => (last.st = "ok" /\ pc = "ready")
    /\ IsDeref =>
          IF Satisfies(nodes[DerefPos + 1])
          THEN last.st = "ok" /\ last.val = nodes[DerefPos + 1]
          ELSE last.st = "assert" /\ pc = "aborted"

\* C2, amended: construction never checks the elements; dereferencing a node
\* that does not satisfy T fails the assertion in a build with assertions
\* and returns the null handle in a build that defines NDEBUG;
\* dereferencing a node that satisfies T returns that node.
C2_DerefAssertsUnlessNdebug ==
    /\ last.op \in {"Range", "RangeOfVector"} => (last.st = "ok" /\ pc = "ready")
    /\ IsDeref =>
          IF Satisfies(nodes[DerefPos + 1])
          THEN last.st = "ok" /\ last.val = nodes[DerefPos + 1]
          ELSE IF ndebug
               THEN last.st = "ok" /\ last.val = NULL /\ pc # "aborted"
               ELSE last.st = "assert" /\ pc = "aborted"

\* A range was built over a span holding a node that is no T, and the
\* dereference of that node failed the assertion.
C2_Witness ==
    /\ ~ndebug
    /\ last.op = "deref"
    /\ last.st = "assert"
    /\ ~WellTyped(SpanBegin, SpanEnd)
    /\ Len(yielded) >= 1

\* The k-th element of the span from b, as the T handle operator* recovers.
Elem(b, k) == IF Satisfies(nodes[b + k]) THEN nodes[b + k] ELSE NULL

\* C4: a == b is true iff both have the same length and are pairwise
\* node-equal (the handles operator* yields are the same node); ranges of
\* different length are never equal, a range is always equal to itself.
C4_RangeEquality ==
    (last.op = "equals") =>
        LET n == SpanEnd - SpanBegin
            sameLen == (last.j - last.i) = n
        IN  /\ last.same => (last.st = "ok" /\ last.val = TRUE)
            /\ (~last.same /\ ~sameLen) => (last.st = "ok" /\ last.val = FALSE)
            /\ (WellTyped(SpanBegin, SpanEnd) /\ WellTyped(last.i, last.j)) =>
                  /\ last.st = "ok"
                  /\ last.val = (sameLen /\ \A k \in 1 .. n :
                                     nodes[SpanBegin + k] = nodes[last.i + k])
            /\ (last.st = "ok") =>
                  last.val = (sameLen /\ \A k \in 1 .. n :
                                  Elem(SpanBegin, k) = Elem(last.i, k))

\* Two different, non-empty, well-typed spans that hold the same nodes
\* compared equal.
C4_Witness ==
    /\ last.op = "equals"
    /\ ~last.same
    /\ last.i # SpanBegin
    /\ SpanEnd - SpanBegin >= 1
    /\ WellTyped(SpanBegin, SpanEnd)
    /\ last.val = TRUE

\* C5 (in a build with assertions, reading inside the vector):
\* operator[](i) fails the assertion for every i >= size() and returns the
\* element at span position i for every i < size().
C5_SubscriptBoundsChecked ==
    (last.op = "subscript" /\ ~ndebug
        /\ InVector(SpanBegin + to_difference_type(last.i))) =>
        IF last.i >= size(a)
        THEN last.st = "assert" /\ pc = "aborted"
        ELSE Satisfies(nodes[SpanBegin + last.i + 1]) =>
                (last.st = "ok" /\ last.val = nodes[SpanBegin + last.i + 1])

-----------------------------------------------------------------------------
(* RangeIterator arithmetic as steps of a client *)

Offsets == (0 - MaxOffset) .. MaxOffset
Positions == (0 - 2 * MaxOffset) .. (2 * MaxOffset)

Arith(op, n, old, ret, d) == [op |-> op, n |-> n, old |-> old, ret |-> ret, d |-> d]

InitIter ==
    /\ IdlePipe
    /\ IdleDoc
    /\ IdleHeap
    /\ IdleWalk
    /\ IdleRange
    /\ \E i \in 0 .. MaxOffset : iterX = RangeIterator(i)
    /\ iterY = iterX
    /\ arith = Arith("none", 0, iterX, iterX, 0)

\* iterX++
DoPostIncr ==
    /\ IterPostIncr(iterX).self._iter \in Positions
    /\ iterX' = IterPostIncr(iterX).self
    /\ arith' = Arith("x++", 1, iterX, IterPostIncr(iterX).ret, 0)
    /\ UNCHANGED iterY
    /\ UNCHANGED notIter

\* ++iterX
DoPreIncr ==
    /\ IterPreIncr(iterX)._iter \in Positions
    /\ iterX' = IterPreIncr(iterX)
    /\ arith' = Arith("++x", 1, iterX, IterPreIncr(iterX), 0)
    /\ UNCHANGED iterY
    /\ UNCHANGED notIter

\* iterX += n
DoPlusAssign(n) ==
    /\ IterPlusAssign(iterX, n)._iter \in Positions
    /\ iterX' = IterPlusAssign(iterX, n)
    /\ arith' = Arith("+=", n, iterX, IterPlusAssign(iterX, n), 0)
    /\ UNCHANGED iterY
    /\ UNCHANGED notIter

\* iterX -= n
DoMinusAssign(n) ==
    /\ IterMinusAssign(iterX, n)._iter \in Positions
    /\ iterX' = IterMinusAssign(iterX, n)
    /\ arith' = Arith("-=", n, iterX, IterMinusAssign(iterX, n), 0)
    /\ UNCHANGED iterY
    /\ UNCHANGED notIter

\* iterY = iterX + n
DoPlus(n) ==
    /\ IterPlus(iterX, n)._iter \in Positions
    /\ iterY' = IterPlus(iterX, n)
    /\ arith' = Arith("+", n, iterX, IterPlus(iterX, n), 0)
    /\ UNCHANGED iterX
    /\ UNCHANGED notIter

\* iterY = iterX - n
DoMinus(n) ==
    /\ IterMinus(iterX, n)._iter \in Positions
    /\ iterY' = IterMinus(iterX, n)
    /\ arith' = Arith("-", n, iterX, IterMinus(iterX, n), 0)
    /\ UNCHANGED iterX
    /\ UNCHANGED notIter

\* iterX - iterY
DoDiff ==
    /\ arith' = Arith("diff", 0, iterX, iterY, IterDiff(iterX, iterY))
    /\ UNCHANGED <<iterX, iterY>>
    /\ UNCHANGED notIter

NextIter ==
    \/ DoPostIncr
    \/ DoPreIncr
    \/ \E n \in Offsets : DoPlusAssign(n)
    \/ \E n \in Offsets : DoMinusAssign(n)
    \/ \E n \in Offsets : DoPlus(n)
    \/ \E n \in Offsets : DoMinus(n)
    \/ DoDiff

SpecIter == InitIter /\ [][NextIter]_vars

\* C7: iterator arithmetic moves the position by exactly the signed offset,
\* without bounds check or clamping: (p + n) - p = n, (p + n) - n = p, p += n
\* and p -= n land where p + n and p - n do, (p + n) + m = p + (n + m), the
\* difference of two iterators is the signed offset between them, and p++
\* returns the old position and advances by one.
C7_IteratorArithmetic ==
    /\ \A n \in Offsets :
          /\ IterDiff(IterPlus(iterX, n), iterX) = n
          /\ IterMinus(IterPlus(iterX, n), n) = iterX
          /\ IterPlusAssign(iterX, n) = IterPlus(iterX, n)
          /\ IterMinusAssign(iterX, n) = IterMinus(iterX, n)
          /\ IterMinus(iterX, n)._iter = iterX._iter - n
          /\ \A m \in Offsets :
                IterPlus(IterPlus(iterX, n), m) = IterPlus(iterX, n + m)
    /\ IterDiff(iterX, iterY) = iterX._iter - iterY._iter
    /\ (IterDiff(iterX, iterY) < 0) = (iterX._iter < iterY._iter)
    /\ (arith.op = "x++") =>
          (arith.ret = arith.old /\ iterX._iter = arith.old._iter + 1)
    /\ (arith.op = "++x") =>
          (arith.ret = iterX /\ iterX._iter = arith.old._iter + 1)
    /\ (arith.op = "+=") => iterX._iter = arith.old._iter + arith.n
    /\ (arith.op = "-=") => iterX._iter = arith.old._iter - arith.n
    /\ (arith.op = "+") => (iterY._iter = iterX._iter + arith.n /\ iterX = arith.old)
    /\ (arith.op = "-") => (iterY._iter = iterX._iter - arith.n /\ iterX = arith.old)
    /\ (arith.op = "diff") => arith.d = iterX._iter - iterY._iter

\* The iterator was moved before the start of the vector by a negative
\* offset, and its difference to a later iterator is negative.
C7_Witness ==
    /\ arith.op = "diff"
    /\ iterX._iter < 0
    /\ iterY._iter > MaxLen
    /\ arith.d < 0

-----------------------------------------------------------------------------
(* Nodes with children, and Range::copy() *)

\* A node as the Node interface shows it (kind, children(), meta(),
\* properties(), pruneWalk()). Meta and properties differ from node to node.
NodeRec(id, children, prune) ==
    [kind |-> kindOf(id), children |-> children, meta |-> [location |-> id],
     properties |-> [value |-> id], pruneWalk |-> prune]

children(h, n) == h[n].children
meta(h, n) == h[n].meta
properties(h, n) == h[n].properties

\* pruneWalk() never prunes.
pruneWalk_Never(h, n) == FALSE

pruneWalk(h, n) == h[n].pruneWalk

\* The members of a set of integers, in ascending or descending order.
RECURSIVE Sorted(_, _)
Sorted(S, ascending) ==
    IF S = {}
    THEN <<>>
    ELSE LET m == CHOOSE v \in S : \A w \in S : IF ascending THEN v <= w ELSE v >= w
         IN  <<m>> \o Sorted(S \ {m}, ascending)

\* The trees over nodes 1 .. TreeSize with root 1: each other node has a
\* parent of smaller identity, so the child relation has no cycle.
Parents == { par \in [2 .. TreeSize -> 1 .. TreeSize] : \A n \in 2 .. TreeSize : par[n] < n }

BuildHeap(par, pruned, ascending) ==
    [n \in 1 .. TreeSize |->
        NodeRec(n, Sorted({m \in 2 .. TreeSize : par[m] = n}, ascending), n \in pruned)]

\* Node::clone(): a node of fresh identity with the kind, meta, properties
\* and pruneWalk of n, whose children are clones of n's children.
RECURSIVE Clone(_, _)
RECURSIVE CloneAll(_, _)
CloneAll(h, cs) ==
    IF cs = <<>>
    THEN [heap |-> h, ids |-> <<>>]
    ELSE LET c == Clone(h, Head(cs))
             r == CloneAll(c.heap, Tail(cs))
         IN  [heap |-> r.heap, ids |-> <<c.id>> \o r.ids]

Clone(h, n) ==
    LET r == CloneAll(h, children(h, n))
    IN  [heap |-> Append(r.heap, [h[n] EXCEPT !.children = r.ids]),
         id |-> Len(r.heap) + 1]

CopyResult(st, h, xs) == [st |-> st, heap |-> h, x |-> xs]

\* copy() pushing the node itself instead of its clone.
RECURSIVE CopyLoop_Alias(_, _, _, _)
CopyLoop_Alias(i, e, h, xs) ==
    IF IterEq(i, e)
    THEN {CopyResult("ok", h, xs)}
    ELSE UNION { IF v.st # "ok" THEN {CopyResult(v.st, h, xs)}
                 ELSE CopyLoop_Alias(IterPostIncr(i).self, e, h, Append(xs, v.val))
               : v \in value(i) }

\* The loop of Range::copy(), lines 118-119: x.push_back(i->clone()).
\* operator-> is value(); calling clone() through a null handle is
\* undefined behaviour.
RECURSIVE CopyLoop(_, _, _, _)
CopyLoop(i, e, h, xs) ==
    IF IterEq(i, e)
    THEN {CopyResult("ok", h, xs)}
    ELSE UNION { IF v.st # "ok" THEN {CopyResult(v.st, h, xs)}
                 ELSE IF v.val = NULL
                 THEN {CopyResult("crash", h, xs)} \cup
                      UNION { CopyLoop(IterPostIncr(i).self, e, h, Append(xs, g))
                              : g \in 0 .. Len(h) }
                 ELSE LET c == Clone(h, v.val)
                      IN  CopyLoop(IterPostIncr(i).self, e, c.heap, Append(xs, c.id))
               : v \in value(i) }

\* Range::copy(), lines 116-122
copy(r, h) == CopyLoop(r._begin, r._end, h, <<>>)

\* A range over the children of the root of a tree.
InitCopy ==
    /\ IdlePipe
    /\ IdleDoc
    /\ IdleIter
    /\ IdleWalk
    /\ \E par \in Parents :
          heap = BuildHeap(par, {n \in 1 .. TreeSize : n % 2 = 0}, TRUE)
    /\ heap0 = heap
    /\ copied = <<>>
    /\ nodes = children(heap, 1)
    /\ ndebug \in BOOLEAN
    /\ a = Range(0, 0)
    /\ pc = "new"
    /\ it = RangeIterator(0)
    /\ yielded = <<>>
    /\ last = Op("none", 0, 0, FALSE, Outcome("ok", NULL))

CallCopy ==
    /\ pc = "ready"
    /\ \E r \in copy(a, heap) :
          /\ heap' = r.heap
          /\ copied' = r.x
          /\ last' = Op("copy", 0, 0, FALSE, Outcome(r.st, NULL))
          /\ pc' = IF r.st = "ok" THEN "copied" ELSE "aborted"
    /\ UNCHANGED <<nodes, ndebug, a, heap0>>
    /\ UNCHANGED notCopy

\* The nodes copy() created.
Clones == (Len(heap0) + 1) .. Len(heap)

\* children().push_back(n) on a node copy() created
ClonePushBack(c, n) ==
    /\ pc = "copied"
    /\ heap' = [heap EXCEPT ![c].children = Append(@, n)]
    /\ pc' = "mutated"
    /\ last' = Op("push_back", c, n, FALSE, Outcome("ok", NULL))
    /\ UNCHANGED <<nodes, ndebug, a, heap0, copied>>
    /\ UNCHANGED notCopy

\* children().pop_back() on a node copy() created
ClonePopBack(c) ==
    /\ pc = "copied"
    /\ children(heap, c) # <<>>
    /\ heap' = [heap EXCEPT ![c].children = SubSeq(@, 1, Len(@) - 1)]
    /\ pc' = "mutated"
    /\ last' = Op("pop_back", c, 0, FALSE, Outcome("ok", NULL))
    /\ UNCHANGED <<nodes, ndebug, a, heap0, copied>>
    /\ UNCHANGED notCopy

\* children()[k] = n on a node copy() created
CloneReplace(c, k, n) ==
    /\ pc = "copied"
    /\ k \in 1 .. Len(children(heap, c))
    /\ heap' = [heap EXCEPT ![c].children[k] = n]
    /\ pc' = "mutated"
    /\ last' = Op("replace", c, n, FALSE, Outcome("ok", NULL))
    /\ UNCHANGED <<nodes, ndebug, a, heap0, copied>>
    /\ UNCHANGED notCopy

NextCopy ==
    \/ \E s \in Spans : Construct(s[1], s[2])
    \/ ConstructFromVector
    \/ CallCopy
    \/ \E c \in Clones, n \in 1 .. Len(heap) : ClonePushBack(c, n)
    \/ \E c \in Clones : ClonePopBack(c)
    \/ \E c \in Clones, k \in 1 .. TreeSize, n \in 1 .. Len(heap) : CloneReplace(c, k, n)

SpecCopy == InitCopy /\ [][NextCopy]_vars

\* The nodes reachable from n through children(), n included.
RECURSIVE Reach(_, _)
Reach(h, n) ==
    {n} \cup UNION { Reach(h, children(h, n)[k]) : k \in 1 .. Len(children(h, n)) }

\* Content equality: same kind, meta, properties and pruneWalk, and
\* pairwise content-equal children.
RECURSIVE ContentEq(_, _, _)
ContentEq(h, m, n) ==
    /\ h[m].kind = h[n].kind
    /\ meta(h, m) = meta(h, n)
    /\ properties(h, m) = properties(h, n)
    /\ pruneWalk(h, m) = pruneWalk(h, n)
    /\ Len(children(h, m)) = Len(children(h, n))
    /\ \A k \in 1 .. Len(children(h, m)) :
          ContentEq(h, children(h, m)[k], children(h, n)[k])

Originals == 1 .. Len(heap0)

-----------------------------------------------------------------------------
(* The walker: depth-first traversal honouring pruneWalk() *)

Frame(n, k) == [node |-> n, next |-> k]
Top == stack[Len(stack)]

InitWalk ==
    /\ IdlePipe
    /\ IdleDoc
    /\ IdleRange
    /\ IdleIter
    /\ \E par \in Parents, pruned \in SUBSET (1 .. TreeSize), ascending \in BOOLEAN :
          heap = BuildHeap(par, pruned, ascending)
    /\ heap0 = heap
    /\ copied = <<>>
    /\ order \in {"pre", "post"}
    /\ stack = <<>>
    /\ visited = <<>>
    /\ wpc = "idle"

\* The walk starts at the root; pre-order visits a node on entering it.
WalkStart ==
    /\ wpc = "idle"
    /\ stack' = <<Frame(1, 1)>>
    /\ visited' = IF order = "pre" THEN <<1>> ELSE <<>>
    /\ wpc' = "walking"
    /\ UNCHANGED order
    /\ UNCHANGED notWalk

\* Descend into the next child of the current node, unless it is pruned. The
\* child sequence is read again at every descent.
WalkDescend ==
    /\ wpc = "walking"
    /\ ~pruneWalk(heap, Top.node)
    /\ Top.next <= Len(children(heap, Top.node))
    /\ LET c == children(heap, Top.node)[Top.next]
       IN  /\ stack' = Append([stack EXCEPT ![Len(stack)].next = @ + 1], Frame(c, 1))
           /\ visited' = IF order = "pre" THEN Append(visited, c) ELSE visited
    /\ UNCHANGED <<order, wpc>>
    /\ UNCHANGED notWalk

\* Leave the current node when it is pruned or its children are done;
\* post-order visits a node on leaving it.
WalkAscend ==
    /\ wpc = "walking"
    /\ pruneWalk(heap, Top.node) \/ Top.next > Len(children(heap, Top.node))
    /\ stack' = SubSeq(stack, 1, Len(stack) - 1)
    /\ visited' = IF order = "post" THEN Append(visited, Top.node) ELSE visited
    /\ wpc' = IF Len(stack) = 1 THEN "done" ELSE "walking"
    /\ UNCHANGED order
    /\ UNCHANGED notWalk

NextWalk ==
    \/ WalkStart
    \/ WalkDescend
    \/ WalkAscend

\* The walker is synchronous, single-threaded code: it always takes its next step.
SpecWalk == InitWalk /\ [][NextWalk]_vars /\ WF_vars(NextWalk)

\* The proper ancestors of n in the tree.
RECURSIVE Ancestors(_)
Ancestors(n) ==
    LET ps == { m \in 1 .. Len(heap) : \E k \in 1 .. Len(heap[m].children) :
                                          heap[m].children[k] = n }
    IN  ps \cup UNION { Ancestors(m) : m \in ps }

\* The nodes of the subtree of n.
Subtree(n) == { m \in 1 .. Len(heap) : m = n \/ n \in Ancestors(m) }

\* The nodes with no pruned proper ancestor.
Unpruned == { n \in 1 .. Len(heap) : \A m \in Ancestors(n) : ~heap[m].pruneWalk }

Pos(n) == CHOOSE k \in 1 .. Len(visited) : visited[k] = n

C8_Safety ==
    /\ \A k, l \in 1 .. Len(visited) : (k # l) => visited[k] # visited[l]
    /\ \A k \in 1 .. Len(visited) : visited[k] \in Unpruned
    /\ (wpc = "done") =>
          /\ { visited[k] : k \in 1 .. Len(visited) } = Unpruned
          /\ \A n \in Unpruned :
                heap[n].pruneWalk =>
                   \A m \in Subtree(n) \ {n} : \A k \in 1 .. Len(visited) : visited[k] # m
          /\ \A n \in Unpruned :
                ~heap[n].pruneWalk =>
                   \A k \in 1 .. Len(heap[n].children) :
                      LET c == heap[n].children[k]
                      IN  /\ IF order = "pre" THEN Pos(n) < Pos(c) ELSE Pos(c) < Pos(n)
                          /\ \A l \in (k + 1) .. Len(heap[n].children) :
                                \A m1 \in Subtree(c) \cap Unpruned,
                                   m2 \in Subtree(heap[n].children[l]) \cap Unpruned :
                                   Pos(m1) < Pos(m2)

\* C8: in a pre-order or post-order walk of an acyclic tree every node with
\* no pruned proper ancestor is visited exactly once, a pruned node is
\* visited but none of its descendants is, children are visited in
\* child-sequence order, and the walk terminates.
C8_WalkPrunes == [] C8_Safety /\ <>(wpc = "done")

\* A finished post-order walk that visited a pruned node with children and
\* another node with two children.
C8_Witness ==
    /\ wpc = "done"
    /\ order = "post"
    /\ \E n \in Unpruned : heap[n].pruneWalk /\ heap[n].children # <<>>
    /\ \E n \in Unpruned : ~heap[n].pruneWalk /\ Len(heap[n].children) >= 2
    /\ Len(visited) < Len(heap)

-----------------------------------------------------------------------------
(* The pass pipeline: passes in declared order, repeated to a fixed point *)

\* The passes, in their declared order.
Passes == <<"constant-folding", "dead-branch-pruning">>

\* The trees a pass can be given or produce.
Trees == 1 .. NumTrees

\* The iteration cap of the fixed-point loop.
IterationCap == 3

\* The cap is never reached.
AtCap_Never(r) == FALSE

AtCap(r) == r >= IterationCap

InitPipe ==
    /\ IdleDoc
    /\ IdleRange
    /\ IdleIter
    /\ IdleHeap
    /\ IdleWalk
    /\ passFns \in [1 .. Len(Passes) -> [Trees -> Trees]]
    /\ tree \in Trees
    /\ round = 0
    /\ passIdx = 0
    /\ modified = FALSE
    /\ outcome = "idle"
    /\ report = "none"
    /\ rerun = FALSE

\* Run the pipeline: the first time, or again on a tree it has stabilized.
PipeStart ==
    /\ outcome = "idle" \/ (outcome = "stable" /\ ~rerun)
    /\ rerun' = (outcome = "stable")
    /\ outcome' = "running"
    /\ round' = 1
    /\ passIdx' = 1
    /\ modified' = FALSE
    /\ report' = "none"
    /\ UNCHANGED <<passFns, tree>>
    /\ UNCHANGED notPipe

\* The next pass of the iteration: it returns the tree unchanged, or a
\* rewritten tree and reports the change.
RunPass ==
    /\ outcome = "running"
    /\ passIdx <= Len(Passes)
    /\ tree' = passFns[passIdx][tree]
    /\ modified' = (modified \/ passFns[passIdx][tree] # tree)
    /\ passIdx' = passIdx + 1
    /\ UNCHANGED <<passFns, round, outcome, report, rerun>>
    /\ UNCHANGED notPipe

\* The end of an iteration: stop when no pass reported a change, fail with a
\* diagnostic at the cap, else iterate again.
EndIteration ==
    /\ outcome = "running"
    /\ passIdx > Len(Passes)
    /\ IF ~modified
       THEN /\ outcome' = "stable"
            /\ report' = IF round = 1 THEN "unchanged" ELSE "changed"
            /\ UNCHANGED <<round, passIdx, modified>>
       ELSE IF AtCap(round)
            THEN /\ outcome' = "failed"
                 /\ report' = "diagnostic"
                 /\ UNCHANGED <<round, passIdx, modified>>
            ELSE /\ round' = round + 1
                 /\ passIdx' = 1
                 /\ modified' = FALSE
                 /\ UNCHANGED <<outcome, report>>
    /\ UNCHANGED <<passFns, tree, rerun>>
    /\ UNCHANGED notPipe

NextPipe ==
    \/ PipeStart
    \/ RunPass
    \/ EndIteration

\* The pipeline is synchronous, single-threaded code: it always takes its next step.
SpecPipe == InitPipe /\ [][NextPipe]_vars /\ WF_vars(NextPipe)

FixedPoint(t) == \A i \in 1 .. Len(Passes) : passFns[i][t] = t

C9_Safety ==
    /\ outcome \in {"idle", "running", "stable", "failed"}
    /\ round <= IterationCap
    /\ (outcome # "idle") => (round >= 1 /\ passIdx \in 1 .. (Len(Passes) + 1))
    /\ (outcome = "stable") =>
          /\ ~modified
          /\ passIdx = Len(Passes) + 1
          /\ FixedPoint(tree)
          /\ report \in {"changed", "unchanged"}
    /\ (outcome = "failed") =>
          /\ round = IterationCap
          /\ modified
          /\ report = "diagnostic"
    /\ (report = "diagnostic") => outcome = "failed"
    /\ rerun =>
          /\ FixedPoint(tree)
          /\ ~modified
          /\ round = 1
          /\ outcome # "failed"
          /\ (outcome = "stable") => report = "unchanged"

\* Passes run in declared order, the loop stops as soon as an iteration
\* without a change completes, and an iteration is repeated only below the cap.
C9_Step ==
    /\ (outcome = "running" /\ passIdx' # passIdx) =>
          \/ passIdx' = passIdx + 1 /\ passIdx <= Len(Passes) /\ round' = round
          \/ passIdx' = 1 /\ passIdx = Len(Passes) + 1 /\ round' = round + 1
                /\ modified /\ round < IterationCap
    /\ (outcome = "running" /\ passIdx > Len(Passes) /\ ~modified) =>
          (outcome' = "stable" /\ tree' = tree)
    /\ (outcome \in {"stable", "failed"} /\ outcome' = outcome) => UNCHANGED pipeVars

\* C9: the pipeline always terminates: passes run in declared order, the
\* loop stops as soon as an iteration in which no pass reports a change
\* completes, it never runs more iterations than the cap, reaching the cap
\* without stabilizing ends in a reported diagnostic, and running it again
\* on a stabilized tree reports unchanged.
C9_PipelineTerminates ==
    /\ [] C9_Safety
    /\ [][C9_Step]_vars
    /\ <>(outcome = "failed" \/ (outcome = "stable" /\ rerun))

\* Two passes that undo each other drove the loop to the cap.
C9_Witness ==
    /\ outcome = "failed"
    /\ round = IterationCap
    /\ passFns[1][tree] # tree
    /\ passFns[2][passFns[1][tree]] = tree

-----------------------------------------------------------------------------
(* The documentation generator: grouping of entries by namespace *)

NamespaceMappings ==
    [signed_integer |-> "integer", unsigned_integer |-> "integer", struct_ |-> "struct"]

\* The mapping maps nothing.
namespace_Identity(ns) == ns

\* dict.get(ns, ns)
namespace(ns) == IF ns \in DOMAIN NamespaceMappings THEN NamespaceMappings[ns] ELSE ns

\* The namespaces and kinds an input entry is drawn from.
Namespaces == {"signed_integer", "unsigned_integer", "struct_", "integer", "struct", "bytes"}
Kinds == {"MemberCall", "In", "Sum"}
Docs == {"doc"}
InInvDoc == "Performs the inverse of the corresponding in operation."

Entries == [kind : Kinds, namespace : Namespaces, doc : Docs]

\* The fields of the constructed objects that grouping and rendering read.
Operator(m) == [kind |-> m.kind, namespace |-> namespace(m.namespace), doc |-> m.doc]

Method(m) == [kind |-> m.kind, namespace |-> namespace(m.namespace), doc |-> m.doc]

\* x = d.setdefault(ns, []); x += [o]
AddTo(d, ns, o) ==
    [k \in DOMAIN d \cup {ns} |->
        IF k = ns
        THEN Append(IF ns \in DOMAIN d THEN d[ns] ELSE <<>>, o)
        ELSE d[k]]

\* copy.copy(m2) with kind and doc replaced
InInv(m2) == [m2 EXCEPT !.kind = "InInv", !.doc = InInvDoc]

\* ---- rendering and the output loop ----

\* Python strings are compared, and tested for a prefix, code point by code
\* point: a rendered text is the sequence of its code points.
CodePoints ==
    ("signed_integer" :>
        <<115, 105, 103, 110, 101, 100, 95, 105, 110, 116, 101, 103, 101,
        114>>) @@
    ("unsigned_integer" :>
        <<117, 110, 115, 105, 103, 110, 101, 100, 95, 105, 110, 116, 101,
        103, 101, 114>>) @@
    ("struct_" :>
        <<115, 116, 114, 117, 99, 116, 95>>) @@
    ("integer" :>
        <<105, 110, 116, 101, 103, 101, 114>>) @@
    ("struct" :>
        <<115, 116, 114, 117, 99, 116>>) @@
    ("bytes" :>
        <<98, 121, 116, 101, 115>>) @@
    ("In" :>
        <<73, 110>>) @@
    ("InInv" :>
        <<73, 110, 73, 110, 118>>) @@
    ("Sum" :>
        <<83, 117, 109>>) @@
    ("int" :>
        <<105, 110, 116>>)

\* fmtDoc(doc): the paragraphs of doc, filled and indented by four spaces.
fmtDoc ==
    ("doc" :>
        <<32, 32, 32, 32, 100, 111, 99>>) @@
    ("Performs the inverse of the corresponding in operation." :>
        <<32, 32, 32, 32, 80, 101, 114, 102, 111, 114, 109, 115, 32, 116,
        104, 101, 32, 105, 110, 118, 101, 114, 115, 101, 32, 111, 102, 32,
        116, 104, 101, 32, 99, 111, 114, 114, 101, 115, 112, 111, 110,
        100, 105, 110, 103, 32, 96, 96, 105, 110, 96, 96, 32, 111, 112,
        101, 114, 97, 116, 105, 111, 110, 46>>)

\* Operators[kind](op) for the operands of the entries: two operands of type
\* bytes, rendered by binary(token).
Operators ==
    ("In" :>
        <<116, 58, 98, 121, 116, 101, 115, 32, 60, 115, 112, 62, 32, 111,
        112, 58, 105, 110, 32, 60, 115, 112, 62, 32, 116, 58, 98, 121,
        116, 101, 115>>) @@
    ("InInv" :>
        <<116, 58, 98, 121, 116, 101, 115, 32, 60, 115, 112, 62, 32, 111,
        112, 58, 33, 105, 110, 32, 60, 115, 112, 62, 32, 116, 58, 98, 121,
        116, 101, 115>>) @@
    ("Sum" :>
        <<116, 58, 98, 121, 116, 101, 115, 32, 60, 115, 112, 62, 32, 111,
        112, 58, 43, 32, 60, 115, 112, 62, 32, 116, 58, 98, 121, 116, 101,
        115>>)

OperatorDirective ==
    <<46, 46, 32, 115, 112, 105, 99, 121, 58, 111, 112, 101, 114, 97, 116,
    111, 114, 58, 58, 32>>

MethodDirective ==
    <<46, 46, 32, 115, 112, 105, 99, 121, 58, 109, 101, 116, 104, 111, 100,
    58, 58, 32>>

\* " {result} " of an operator: fmtType(rtype) for the rtype bool of the entries.
OperatorResult ==
    <<32, 98, 111, 111, 108, 32>>

\* "::{id} {self} {id} {const} {result} ({args})" of a method: the entries'
\* id size, self type bytes, not const, rtype uint<64>, no arguments.
MethodSignature ==
    <<58, 58, 115, 105, 122, 101, 32, 98, 121, 116, 101, 115, 32, 115, 105,
    122, 101, 32, 70, 97, 108, 115, 101, 32, 117, 105, 110, 116, 60, 54, 52,
    62, 32, 40, 41>>

RubricMethods ==
    <<46, 46, 32, 114, 117, 98, 114, 105, 99, 58, 58, 32, 77, 101, 116, 104,
    111, 100, 115, 10>>

RubricOperators ==
    <<46, 46, 32, 114, 117, 98, 114, 105, 99, 58, 58, 32, 79, 112, 101, 114,
    97, 116, 111, 114, 115, 10>>

\* s < t on Python strings: the first position where they differ decides,
\* and a proper prefix is less.
StrLt(s, t) ==
    LET n == IF Len(s) < Len(t) THEN Len(s) ELSE Len(t)
    IN  IF \E k \in 1 .. n : s[k] # t[k]
        THEN LET d == CHOOSE k \in 1 .. n :
                         s[k] # t[k] /\ \A j \in 1 .. (k - 1) : s[j] = t[j]
             IN  s[d] < t[d]
        ELSE Len(s) < Len(t)

\* s.startswith(p)
startswith(s, p) == Len(p) <= Len(s) /\ SubSeq(s, 1, Len(p)) = p

Operator_rst(o) ==
    OperatorDirective \o CodePoints[o.namespace] \o <<58, 58>> \o CodePoints[o.kind]
        \o OperatorResult \o Operators[o.kind] \o <<10, 10>> \o fmtDoc[o.doc]

Method_rst(o) ==
    MethodDirective \o CodePoints[o.namespace] \o MethodSignature
        \o <<10, 10>> \o fmtDoc[o.doc]

\* o.rst(): the objects made from MemberCall entries are Methods, the others Operators.
rst(o) == IF o.kind = "MemberCall" THEN Method_rst(o) ELSE Operator_rst(o)

\* __lt__ of Operator and of Method
lt(o1, o2) == StrLt(rst(o1), rst(o2))

\* sorted() uses only __lt__ and is stable: x goes before the first element
\* it is less than.
RECURSIVE Insert(_, _)
Insert(ys, x) ==
    IF ys = <<>>
    THEN <<x>>
    ELSE IF lt(x, Head(ys))
         THEN <<x>> \o ys
         ELSE <<Head(ys)>> \o Insert(Tail(ys), x)

RECURSIVE SortInto(_, _)
SortInto(acc, xs) ==
    IF xs = <<>> THEN acc ELSE SortInto(Insert(acc, Head(xs)), Tail(xs))

\* The list is left in its order.
sorted_Unsorted(xs) == xs

sorted(xs) == SortInto(<<>>, xs)

\* sorted(keys) for a set of namespaces
RECURSIVE sortedKeys(_)
sortedKeys(S) ==
    IF S = {}
    THEN <<>>
    ELSE LET m == CHOOSE k \in S :
                     \A j \in S \ {k} : StrLt(CodePoints[k], CodePoints[j])
         IN  <<m>> \o sortedKeys(S \ {m})

\* The namespaces selected by -d (all of them) and -t (those that start
\* with one of the given types).
keys(opts, ops, mths) ==
    LET all == DOMAIN ops \cup DOMAIN mths
    IN  (IF opts.dir THEN all ELSE {})
           \cup { i \in all : \E n \in 1 .. Len(opts.types) :
                                 startswith(CodePoints[i], CodePoints[opts.types[n]]) }

\* print(s, file=out) while namespace ns is processed
Printed(ns, s) == [ns |-> ns, s |-> s \o <<10>>]

\* print_unique(o.rst()) for the objects of xs in order, from the set
\* already_recorded.
RECURSIVE print_unique(_, _, _)
print_unique(ns, xs, already_recorded) ==
    IF xs = <<>>
    THEN [printed |-> <<>>, already_recorded |-> already_recorded]
    ELSE LET s == rst(Head(xs))
         IN  IF s \in already_recorded
             THEN print_unique(ns, Tail(xs), already_recorded)
             ELSE LET r == print_unique(ns, Tail(xs), already_recorded \cup {s})
                  IN  [printed |-> <<Printed(ns, s \o <<10>>)>> \o r.printed,
                       already_recorded |-> r.already_recorded]

\* d.get(ns, [])
Get(d, ns) == IF ns \in DOMAIN d THEN d[ns] ELSE <<>>

\* The body of the output loop for one namespace.
WriteNamespace(ns, ops, mths) ==
    LET x1 == sorted(Get(mths, ns))
        p1 == print_unique(ns, sorted(x1), {})
        x2 == sorted(Get(ops, ns))
        p2 == print_unique(ns, sorted(x2), p1.already_recorded)
    IN  (IF x1 # <<>> THEN <<Printed(ns, RubricMethods)>> \o p1.printed ELSE <<>>)
           \o (IF x2 # <<>> THEN <<Printed(ns, RubricOperators)>> \o p2.printed ELSE <<>>)

RECURSIVE WriteAll(_, _, _)
WriteAll(ks, ops, mths) ==
    IF ks = <<>>
    THEN <<>>
    ELSE WriteNamespace(Head(ks), ops, mths) \o WriteAll(Tail(ks), ops, mths)

\* The command lines: -d DIR, and -t int,bytes.
ArgsChoices ==
    { [dir |-> TRUE, types |-> <<>>],
      [dir |-> FALSE, types |-> <<"int", "bytes">>] }

\* for ns in sorted(keys), after the grouping loop has gone through meta.
WriteOutput ==
    /\ docPc = "grouping"
    /\ docIdx = Len(docMeta) + 1
    /\ out' = WriteAll(sortedKeys(keys(args, operators, methods)), operators, methods)
    /\ docPc' = "written"
    /\ UNCHANGED <<args, run, firstOut, reordered>>
    /\ UNCHANGED docVars
    /\ UNCHANGED notOut

\* The orders the entries of a list can be given in.
Orders(xs) ==
    { SubSeq([i \in 1 .. Len(xs) |-> xs[f[i]]], 1, Len(xs)) :
        f \in { g \in [1 .. Len(xs) -> 1 .. Len(xs)] :
                  \A i, j \in 1 .. Len(xs) : (i # j) => g[i] # g[j] } }

\* The generator is run a second time with the same command line, on the
\* same entries in some order.
RunAgain ==
    /\ docPc = "written"
    /\ run = 1
    /\ \E p \in Orders(docMeta) :
          /\ docMeta' = p
          /\ reordered' = (p # docMeta)
    /\ firstOut' = out
    /\ docIdx' = 1
    /\ operators' = EmptyDict
    /\ methods' = EmptyDict
    /\ out' = <<>>
    /\ run' = 2
    /\ docPc' = "grouping"
    /\ UNCHANGED args
    /\ UNCHANGED notOut

InitDoc ==
    /\ IdlePipe
    /\ IdleRange
    /\ IdleIter
    /\ IdleHeap
    /\ IdleWalk
    /\ docMeta \in SeqsUpTo(Entries, MaxEntries)
    /\ docIdx = 1
    /\ operators = EmptyDict
    /\ methods = EmptyDict
    /\ args \in ArgsChoices
    /\ out = <<>>
    /\ run = 1
    /\ firstOut = <<>>
    /\ reordered = FALSE
    /\ docPc = "grouping"

\* One iteration of the loop over meta.
GroupEntry ==
    /\ docIdx >= 1
    /\ docIdx <= Len(docMeta)
    /\ LET op == docMeta[docIdx]
       IN  IF op.kind = "MemberCall"
           THEN /\ methods' = AddTo(methods, Method(op).namespace, Method(op))
                /\ UNCHANGED operators
           ELSE /\ operators' =
                      LET m2 == Operator(op)
                          x2 == AddTo(operators, m2.namespace, m2)
                      IN  IF m2.kind = "In"
                          THEN AddTo(x2, InInv(m2).namespace, InInv(m2))
                          ELSE x2
                /\ UNCHANGED methods
    /\ docIdx' = docIdx + 1
    /\ UNCHANGED docMeta
    /\ UNCHANGED notDoc

NextDoc ==
    \/ GroupEntry
    \/ WriteOutput
    \/ RunAgain

SpecDoc == InitDoc /\ [][NextDoc]_vars

Unmapped == {"signed_integer", "unsigned_integer", "struct_"}

\* The objects of a group, as a set.
Group(d, ns) == IF ns \in DOMAIN d THEN {d[ns][j] : j \in 1 .. Len(d[ns])} ELSE {}

\* The entries the loop has gone through.
Grouped == IF docIdx = 0 THEN {} ELSE 1 .. (docIdx - 1)

\* C10: the namespace mapping sends signed_integer and unsigned_integer to
\* integer and struct_ to struct and leaves every other namespace alone, it
\* is idempotent, every entry the loop has gone through is filed under the
\* mapped namespace of its input (with its generated InInv twin next to an
\* In operator), every filed object carries the key of its group, and no
\* group is keyed by signed_integer, unsigned_integer or struct_.
C10_NamespaceGrouping ==
    /\ namespace("signed_integer") = "integer"
    /\ namespace("unsigned_integer") = "integer"
    /\ namespace("struct_") = "struct"
    /\ \A ns \in Namespaces \ Unmapped : namespace(ns) = ns
    /\ \A ns \in Namespaces : namespace(namespace(ns)) = namespace(ns)
    /\ \A k \in Grouped :
          LET op == docMeta[k]
              g == IF op.namespace \in {"signed_integer", "unsigned_integer"} THEN "integer"
                   ELSE IF op.namespace = "struct_" THEN "struct"
                   ELSE op.namespace
              o == [kind |-> op.kind, namespace |-> g, doc |-> op.doc]
          IN  IF op.kind = "MemberCall"
              THEN o \in Group(methods, g)
              ELSE /\ o \in Group(operators, g)
                   /\ (op.kind = "In") =>
                         [kind |-> "InInv", namespace |-> g, doc |-> InInvDoc]
                             \in Group(operators, g)
    /\ \A ns \in DOMAIN operators : \A o \in Group(operators, ns) : o.namespace = ns
    /\ \A ns \in DOMAIN methods : \A o \in Group(methods, ns) : o.namespace = ns
    /\ DOMAIN operators \cap Unmapped = {}
    /\ DOMAIN methods \cap Unmapped = {}

\* A signed_integer entry and an unsigned_integer entry were both grouped, and
\* the group "integer" holds them both.
C10_Witness ==
    /\ docIdx = Len(docMeta) + 1
    /\ \E i, j \in Grouped :
          /\ docMeta[i].namespace = "signed_integer"
          /\ docMeta[j].namespace = "unsigned_integer"
          /\ docMeta[i].kind = "Sum"
          /\ docMeta[j].kind = "In"
    /\ "integer" \in DOMAIN operators
    /\ Len(operators["integer"]) = 3

\* What a printed line is: the rendering of a method, of an operator, or a rubric.
IsMethodLine(l) == startswith(l.s, MethodDirective)
IsOperatorLine(l) == startswith(l.s, OperatorDirective)
MethodSide(l) == IsMethodLine(l) \/ l.s = RubricMethods \o <<10>>
OperatorSide(l) == IsOperatorLine(l) \/ l.s = RubricOperators \o <<10>>

\* The rendered strings printed for namespace ns.
Rendered(ns) ==
    { out[i].s : i \in { k \in 1 .. Len(out) :
                           out[k].ns = ns /\ (IsMethodLine(out[k]) \/ IsOperatorLine(out[k])) } }

\* C11: the output has a fixed order and no duplicates: only selected
\* namespaces are printed, in ascending string order; within a namespace
\* methods come before operators, each group in ascending order of the
\* rendered string; every rendered string of a selected namespace is
\* printed, and at most once per namespace; and a second run, which gets
\* the entries of the first in any order, prints exactly what the first printed.
C11_FixedOrderNoDuplicates ==
    (docPc = "written") =>
        LET sel == { ns \in DOMAIN operators \cup DOMAIN methods :
                        \/ args.dir
                        \/ \E n \in 1 .. Len(args.types) :
                              startswith(CodePoints[ns], CodePoints[args.types[n]]) }
            idx == 1 .. Len(out)
        IN  /\ \A i \in idx : out[i].ns \in sel
            /\ \A i, j \in idx :
                  (i < j) =>
                     \/ out[i].ns = out[j].ns
                     \/ StrLt(CodePoints[out[i].ns], CodePoints[out[j].ns])
            /\ \A i, j \in idx :
                  (i < j /\ out[i].ns = out[j].ns) =>
                     /\ ~(OperatorSide(out[i]) /\ MethodSide(out[j]))
                     /\ (IsMethodLine(out[i]) /\ IsMethodLine(out[j])) =>
                           StrLt(out[i].s, out[j].s)
                     /\ (IsOperatorLine(out[i]) /\ IsOperatorLine(out[j])) =>
                           StrLt(out[i].s, out[j].s)
                     /\ (~(out[i].s \in {RubricMethods \o <<10>>, RubricOperators \o <<10>>})) =>
                           out[i].s # out[j].s
            /\ \A ns \in sel :
                  Rendered(ns) =
                     { rst(o) \o <<10, 10>> : o \in Group(methods, ns) \cup Group(operators, ns) }
            /\ (run = 2) => out = firstOut

\* The second run got the entries in another order, grouped the operators
\* of a namespace in an order that is not the sorted one, and printed at
\* least two operators of it but fewer lines than the group has objects.
C11_Witness ==
    /\ docPc = "written"
    /\ run = 2
    /\ reordered
    /\ \E ns \in DOMAIN operators :
          /\ \E k \in 1 .. (Len(operators[ns]) - 1) : lt(operators[ns][k + 1], operators[ns][k])
          /\ Cardinality(Rendered(ns)) >= 2
          /\ Cardinality(Rendered(ns)) < Len(operators[ns]) + Len(Get(methods, ns))

=============================================================================
